---- MODULE Spec2Model ----
(***************************************************************************)
(* Model of the wheel tooling under .github/scripts:                       *)
(*   pin_rocm_dependencies.py  - the version pinning rewriter              *)
(*   generate_s3_index.py      - the artifact metadata extractor and the   *)
(*                               index synthesizer                         *)
(* Text is modelled as a sequence of one-character strings, so that        *)
(* splitting, prefix tests and the regular expressions of the rewriter are *)
(* computed character by character as the Python code computes them.       *)
(***************************************************************************)
EXTENDS Integers, Sequences, FiniteSets, TLC

VARIABLES
    \* ---- pin_rocm_dependencies.py ----
    install_dir,     \* the install directory: exists, and its entries in glob order
    pyproject_file,  \* the file at the manifest path: exists, data
    backup_file,     \* the file at the sibling .toml.bak path: exists, data
    versions,        \* dict package_name -> version, in insertion order
    content,         \* the manifest text held in memory
    modifications,   \* list of package names reported as pinned
    pc,              \* position of the rewriter's main()
    exit_status,     \* -1 while running, else the status passed to sys.exit
    pre_run,         \* the file at the manifest path when the current run started
    runs,            \* number of runs started so far
    original,        \* the file at the manifest path before the first run
    \* ---- extract_wheel_metadata, called on its own ----
    fields,          \* the hyphen-free fields a filename is formatted from
    extension,       \* the extension appended to them
    filename,        \* the filename handed to the extractor
    extracted,       \* what the extractor did with it
    parsed,          \* what the rewriter's extract_version_from_wheel did with it
    \* ---- main() of generate_s3_index.py ----
    wheels_dir,      \* the artifact directory: exists, and its files in rglob order
    add_hashes,      \* not args.no_hashes
    add_metadata,    \* not args.no_metadata
    all_wheels,      \* the list of wheel paths found
    packages,        \* dict normalized name -> list of wheel paths, in insertion order
    todo,            \* the items of packages the writing loop has still to visit
    output_dir,      \* the tree under the output directory
    ipc,             \* position of the synthesizer's main()
    index_status,    \* -1 while running, else the exit status of the process
    index_runs,      \* number of runs of the synthesizer started so far
    previous_output, \* the tree under the output directory when the current run started
    \* ---- pure functions called on their own ----
    call,            \* the function called and its argument
    returned,        \* the values returned by the successive applications
    \* ---- normalize_wheels_in_directory of normalize_wheel_versions.py ----
    directory,       \* the files of the directory, in glob order
    dry_run,         \* the dry_run argument
    wheels_found,    \* the list of wheel names the glob returned
    remaining,       \* the wheels the loop has still to visit
    stats,           \* the statistics dict
    npc,             \* position of normalize_wheels_in_directory
    directory_before \* the files of the directory when the function was called

pinVars == <<install_dir, pyproject_file, backup_file, versions, content,
             modifications, pc, exit_status, pre_run, runs, original>>

extractVars == <<fields, extension, filename, extracted, parsed>>

indexVars == <<wheels_dir, add_hashes, add_metadata, all_wheels, packages, todo,
               output_dir, ipc, index_status, index_runs, previous_output>>

callVars == <<call, returned>>

normVars == <<directory, dry_run, wheels_found, remaining, stats, npc, directory_before>>

vars == <<pinVars, extractVars, indexVars, callVars, normVars>>

-----------------------------------------------------------------------------
(* Bounds of the model *)

MaxWheels == 2      \* entries in the install directory
MaxLines  == 2      \* lines of the manifest
MaxRuns   == 2      \* successive runs of the rewriter on one manifest
MaxFields == 7      \* hyphen-delimited fields of a filename given to the extractor
MaxArtifacts == 3   \* files under the artifact directory
MaxIndexRuns == 2   \* successive runs of the synthesizer on one artifact directory
MaxFiles  == 3      \* files in the directory given to normalize_wheels_in_directory
MaxName   == 3      \* characters of a package name given to normalize_package_name

-----------------------------------------------------------------------------
(* Files, and the state of a program that is not running *)

Absent == [exists |-> FALSE, data |-> <<>>]

File(text) == [exists |-> TRUE, data |-> text]

\* the output directory before anything is created in it
EmptyOutput ==
    [simple_dir |-> FALSE, package_dirs |-> {}, package_pages |-> {},
     main_index |-> Absent, landing_page |-> Absent]

\* the rewriter is not running
PinIdle ==
    /\ install_dir = [exists |-> FALSE, entries |-> <<>>]
    /\ pyproject_file = Absent
    /\ backup_file = Absent
    /\ versions = <<>>
    /\ content = <<>>
    /\ modifications = <<>>
    /\ pc = "idle"
    /\ exit_status = -1
    /\ pre_run = Absent
    /\ runs = 0
    /\ original = Absent

\* the extractor is not running on its own
ExtractIdle ==
    /\ fields = <<>>
    /\ extension = <<>>
    /\ filename = <<>>
    /\ extracted = [state |-> "idle"]
    /\ parsed = [state |-> "idle"]

NoStats == [total |-> 0, normalized |-> 0, unchanged |-> 0, errors |-> 0]

\* normalize_wheels_in_directory is not running
NormIdle ==
    /\ directory = <<>>
    /\ dry_run = FALSE
    /\ wheels_found = <<>>
    /\ remaining = <<>>
    /\ stats = NoStats
    /\ npc = "idle"
    /\ directory_before = <<>>

\* no function is being called on its own
CallIdle ==
    /\ call = [fn |-> "idle", arg |-> <<>>, other |-> <<>>, max_versions |-> 0]
    /\ returned = <<>>

\* the synthesizer is not running
IndexIdle ==
    /\ wheels_dir = [exists |-> FALSE, entries |-> <<>>]
    /\ add_hashes = TRUE
    /\ add_metadata = TRUE
    /\ all_wheels = <<>>
    /\ packages = <<>>
    /\ todo = <<>>
    /\ output_dir = EmptyOutput
    /\ ipc = "idle"
    /\ index_status = -1
    /\ index_runs = 0
    /\ previous_output = EmptyOutput

-----------------------------------------------------------------------------
(* Text helpers: Python str operations on character sequences *)

\* s[i:j] with 1-based inclusive bounds; empty when i > j
Slice(s, i, j) == IF i > j THEN <<>> ELSE SubSeq(s, i, j)

\* s.startswith(p) at offset i: index just past p when s has p at i, else 0
MatchLit(s, i, p) ==
    IF i + Len(p) - 1 <= Len(s) /\ \A k \in 1..Len(p) : s[i + k - 1] = p[k]
    THEN i + Len(p) ELSE 0

startswith(s, p) == MatchLit(s, 1, p) # 0

endswith(s, p) == Len(s) >= Len(p) /\ MatchLit(s, Len(s) - Len(p) + 1, p) # 0

\* str.replace(old, new): non-overlapping occurrences, left to right
RECURSIVE ReplaceFrom(_, _, _, _)
ReplaceFrom(s, i, old, new) ==
    IF i > Len(s) THEN <<>>
    ELSE IF MatchLit(s, i, old) # 0
         THEN new \o ReplaceFrom(s, i + Len(old), old, new)
         ELSE <<s[i]>> \o ReplaceFrom(s, i + 1, old, new)

replace(s, old, new) == ReplaceFrom(s, 1, old, new)

\* str.split(sep) for a one-character separator: always at least one segment
RECURSIVE SplitFrom(_, _, _, _)
SplitFrom(s, i, start, sep) ==
    IF i > Len(s) THEN << Slice(s, start, Len(s)) >>
    ELSE IF s[i] = sep
         THEN << Slice(s, start, i - 1) >> \o SplitFrom(s, i + 1, i + 1, sep)
         ELSE SplitFrom(s, i + 1, start, sep)

split(s, sep) == SplitFrom(s, 1, 1, sep)

\* sep.join(parts)
RECURSIVE join(_, _)
join(parts, sep) ==
    IF Len(parts) = 0 THEN <<>>
    ELSE IF Len(parts) = 1 THEN parts[1]
    ELSE parts[1] \o sep \o join(Tail(parts), sep)

\* the concatenation of a sequence of texts
RECURSIVE Concat(_)
Concat(parts) == IF Len(parts) = 0 THEN <<>> ELSE parts[1] \o Concat(Tail(parts))

\* sub occurs in s as a contiguous block
Contains(s, sub) == \E i \in 1..(Len(s) + 1) : MatchLit(s, i, sub) # 0

\* sequences without repetition of length at most n over the set S
RECURSIVE Arrangements(_, _)
Arrangements(S, n) ==
    IF n = 0 THEN { <<>> }
    ELSE LET shorter == Arrangements(S, n - 1)
         IN  shorter \cup { Append(a, x) : a \in shorter, x \in S }

Distinct(a) == \A i, j \in 1..Len(a) : i # j => a[i] # a[j]

Range(a) == { a[i] : i \in 1..Len(a) }

-----------------------------------------------------------------------------
(* Literals of pin_rocm_dependencies.py *)

s_whl            == <<".","w","h","l">>
s_torch          == <<"t","o","r","c","h">>
s_triton_dash    == <<"t","r","i","t","o","n","-">>
s_triton         == <<"t","r","i","t","o","n">>
s_triton_kernels == <<"t","r","i","t","o","n","_","k","e","r","n","e","l","s">>
s_triton_hyphen_kernels == <<"t","r","i","t","o","n","-","k","e","r","n","e","l","s">>
s_torchvision    == <<"t","o","r","c","h","v","i","s","i","o","n">>
s_amdsmi         == <<"a","m","d","s","m","i">>

\* the dict literal package_mapping, in its insertion order
package_mapping == <<
    [prefix |-> s_torch,          package_name |-> s_torch],
    [prefix |-> s_triton_dash,    package_name |-> s_triton],
    [prefix |-> s_triton_kernels, package_name |-> s_triton_hyphen_kernels],
    [prefix |-> s_torchvision,    package_name |-> s_torchvision],
    [prefix |-> s_amdsmi,         package_name |-> s_amdsmi] >>

-----------------------------------------------------------------------------
(* extract_version_from_wheel *)

NoVersion == [ok |-> FALSE, version |-> <<>>]

extract_version_from_wheel(wheel_name) ==
    LET parts == split(replace(wheel_name, s_whl, <<>>), "-")
    IN  IF Len(parts) < 5 THEN NoVersion
        ELSE [ok |-> TRUE, version |-> parts[2]]

-----------------------------------------------------------------------------
(* get_custom_wheel_versions *)

\* Python dict assignment d[k] = v: a new key is appended, an existing key
\* keeps its position
DictHas(d, k) == \E i \in 1..Len(d) : d[i].name = k

DictSet(d, k, v) ==
    IF DictHas(d, k)
    THEN [i \in 1..Len(d) |-> IF d[i].name = k THEN [name |-> k, version |-> v] ELSE d[i]]
    ELSE Append(d, [name |-> k, version |-> v])

\* index of the first entry of package_mapping whose prefix starts the name, 0 if none
FirstPrefix(wheel_name) ==
    LET hits == { i \in 1..Len(package_mapping) : startswith(wheel_name, package_mapping[i].prefix) }
    IN  IF hits = {} THEN 0 ELSE CHOOSE i \in hits : \A j \in hits : i <= j

\* the body of the loop over the glob result, for one wheel
ScanWheel(d, wheel_name) ==
    LET i == FirstPrefix(wheel_name)
        v == extract_version_from_wheel(wheel_name)
    IN  IF i = 0 \/ ~v.ok THEN d
        ELSE DictSet(d, package_mapping[i].package_name, v.version)

\* install_path.glob('*.whl'): the entries ending in .whl, in enumeration order
glob_whl(entries) == SelectSeq(entries, LAMBDA e : endswith(e, s_whl))

RECURSIVE ScanAll(_, _)
ScanAll(d, wheels) ==
    IF Len(wheels) = 0 THEN d ELSE ScanAll(ScanWheel(d, wheels[1]), Tail(wheels))

get_custom_wheel_versions(entries) == ScanAll(<<>>, glob_whl(entries))

-----------------------------------------------------------------------------
(* The regular expressions of pin_dependencies_in_pyproject.               *)
(* Each pattern is matched at a position the way Python's backtracking     *)
(* matcher does; a failed match is reported as end = 0.                    *)

IsSpace(c) == c \in {" ", "\n", "\t"}                                  \* \s

IsDigitDot(c) == c \in {"0","1","2","3","4","5","6","7","8","9","."}   \* [\d.]

IsQuote(c) == c \in {"\"", "'"}                                        \* ["\']

RECURSIVE SkipSpace(_, _)
SkipSpace(s, i) == IF i <= Len(s) /\ IsSpace(s[i]) THEN SkipSpace(s, i + 1) ELSE i

RECURSIVE SkipDigitDot(_, _)
SkipDigitDot(s, i) == IF i <= Len(s) /\ IsDigitDot(s[i]) THEN SkipDigitDot(s, i + 1) ELSE i

\* pattern_name = package_name.replace('-', '[-_]') matched at i
MatchName(s, i, package_name) ==
    IF i >= 1 /\ i + Len(package_name) - 1 <= Len(s)
       /\ \A k \in 1..Len(package_name) :
             IF package_name[k] = "-" THEN s[i + k - 1] \in {"-", "_"}
                                      ELSE s[i + k - 1] = package_name[k]
    THEN i + Len(package_name) ELSE 0

NoMatch == [end |-> 0, g1 |-> <<>>, g2 |-> <<>>]

\* The pieces of a pattern, each taking the index reached so far (0: the
\* match has already failed) and giving the index past what it consumes.

\* a literal
Lit(s, i, p) == IF i = 0 THEN 0 ELSE MatchLit(s, i, p)

\* \s*
Spaces(s, i) == IF i = 0 THEN 0 ELSE SkipSpace(s, i)

\* \s+
Spaces1(s, i) == IF i = 0 \/ SkipSpace(s, i) = i THEN 0 ELSE SkipSpace(s, i)

\* [\d.]+
DigitDots1(s, i) == IF i = 0 \/ SkipDigitDot(s, i) = i THEN 0 ELSE SkipDigitDot(s, i)

\* {pattern_name}
Name(s, i, package_name) == IF i = 0 THEN 0 ELSE MatchName(s, i, package_name)

\* {pattern_name}\s*>=\s*[\d.]+
MatchLowerBound(s, i, package_name) ==
    DigitDots1(s, Spaces(s, Lit(s, Spaces(s, Name(s, i, package_name)), <<">", "=">>)))

\* the last \n among the white space s[p..q-1]: the index past it, 0 if none
LastNewline(s, p, q) ==
    IF \E k \in p..(q - 1) : s[k] = "\n"
    THEN 1 + CHOOSE k \in p..(q - 1) : s[k] = "\n" /\ \A m \in (k + 1)..(q - 1) : s[m] # "\n"
    ELSE 0

\* \s*(?:,|$|\n) with the white space after p ending before q: the greedy
\* \s* gives back white space until one of the alternatives matches
UnquotedEnd(s, p, q) ==
    IF q <= Len(s) /\ s[q] = "," THEN q + 1
    ELSE IF q = Len(s) + 1 THEN q
    ELSE LastNewline(s, p, q)

UnquotedTail(s, p) == IF p = 0 THEN 0 ELSE UnquotedEnd(s, p, SkipSpace(s, p))

MakeMatch(e, g1, g2) == IF e = 0 THEN NoMatch ELSE [end |-> e, g1 |-> g1, g2 |-> g2]

\* (\s+){pattern_name}\s*>=\s*[\d.]+\s*(?:,|$|\n)
MatchUnquoted(s, i, package_name) ==
    MakeMatch(UnquotedTail(s, MatchLowerBound(s, Spaces1(s, i), package_name)),
              Slice(s, i, SkipSpace(s, i) - 1), <<>>)

\* (["\'])
OpenQuote(s, i) == IF i <= Len(s) /\ IsQuote(s[i]) THEN i + 1 ELSE 0

\* ,.*?(["\']) at the comma q: the index of the first quote after it, which
\* must come before the end of the line; 0 if there is none
FirstQuoteOnLine(s, q) ==
    IF \E r \in (q + 1)..Len(s) :
          IsQuote(s[r]) /\ \A m \in (q + 1)..(r - 1) : s[m] # "\n" /\ ~IsQuote(s[m])
    THEN CHOOSE r \in (q + 1)..Len(s) :
          IsQuote(s[r]) /\ \A m \in (q + 1)..(r - 1) : s[m] # "\n" /\ ~IsQuote(s[m])
    ELSE 0

\* (?:,.*?)?(["\']) at q: the index of the closing quote, 0 if none
CloseQuote(s, q) ==
    IF q = 0 \/ q > Len(s) THEN 0
    ELSE IF s[q] = "," THEN FirstQuoteOnLine(s, q)
    ELSE IF IsQuote(s[q]) THEN q
    ELSE 0

QuotedMatch(s, i, r) ==
    IF r = 0 THEN NoMatch ELSE [end |-> r + 1, g1 |-> <<s[i]>>, g2 |-> <<s[r]>>]

\* (["\']){pattern_name}\s*>=\s*[\d.]+\s*(?:,.*?)?(["\'])
MatchQuoted(s, i, package_name) ==
    QuotedMatch(s, i,
        CloseQuote(s, Spaces(s, MatchLowerBound(s, OpenQuote(s, i), package_name))))

\* {pattern_name}\s*=\s*">=\s*[\d.]+"
MatchToml(s, i, package_name) ==
    MakeMatch(
        Lit(s, DigitDots1(s, Spaces(s,
              Lit(s, Spaces(s, Lit(s, Spaces(s, Name(s, i, package_name)), <<"=">>)),
                  <<"\"", ">", "=">>))),
            <<"\"">>),
        <<>>, <<>>)

\* the list `patterns`: entry k matched at position i
MatchPattern(k, s, i, package_name) ==
    CASE k = 1 -> MatchUnquoted(s, i, package_name)
      [] k = 2 -> MatchQuoted(s, i, package_name)
      [] k = 3 -> MatchToml(s, i, package_name)

\* the replacement template of entry k, expanded for the match m
Replacement(k, m, package_name, exact_version) ==
    CASE k = 1 -> m.g1 \o package_name \o <<" ","=","="," ">> \o exact_version \o <<"\n">>
      [] k = 2 -> m.g1 \o package_name \o <<" ","=","="," ">> \o exact_version \o m.g2
      [] k = 3 -> package_name \o <<" ","="," ","\"","=","="," ">> \o exact_version \o <<"\"">>

\* re.search(pattern, content)
re_search(k, s, package_name) ==
    \E i \in 1..Len(s) : MatchPattern(k, s, i, package_name).end # 0

\* re.sub(pattern, replacement, content): leftmost non-overlapping matches
RECURSIVE SubFrom(_, _, _, _, _)
RECURSIVE SubStep(_, _, _, _, _, _)
\* the scan at position i, m being the attempt to match there
SubStep(k, s, i, package_name, exact_version, m) ==
    IF m.end = 0
    THEN <<s[i]>> \o SubFrom(k, s, i + 1, package_name, exact_version)
    ELSE Replacement(k, m, package_name, exact_version)
         \o SubFrom(k, s, m.end, package_name, exact_version)

SubFrom(k, s, i, package_name, exact_version) ==
    IF i > Len(s) THEN <<>>
    ELSE SubStep(k, s, i, package_name, exact_version, MatchPattern(k, s, i, package_name))

re_sub(k, s, package_name, exact_version) == SubFrom(k, s, 1, package_name, exact_version)

\* the loop over `patterns` for one package: the text and the report after it
RECURSIVE PinPatterns(_, _, _, _)
PinPatterns(k, st, package_name, exact_version) ==
    IF k > 3 THEN st
    ELSE PinPatterns(k + 1,
            IF re_search(k, st.content, package_name)
            THEN [content |-> re_sub(k, st.content, package_name, exact_version),
                  modifications |-> Append(st.modifications,
                                           [name |-> package_name, version |-> exact_version])]
            ELSE st,
            package_name, exact_version)

\* the loop over versions.items()
RECURSIVE PinPackages(_, _)
PinPackages(st, d) ==
    IF Len(d) = 0 THEN st
    ELSE PinPackages(PinPatterns(1, st, d[1].name, d[1].version), Tail(d))

\* the in-memory part of pin_dependencies_in_pyproject
Rewritten(text, d) == PinPackages([content |-> text, modifications |-> <<>>], d)

-----------------------------------------------------------------------------
(* Inputs of the rewriter: the entries an install directory may hold and   *)
(* the lines a manifest may be made of                                     *)

whl_torch == <<"t","o","r","c","h","-","2",".","9","+","g","1","-","p","y","3","-","n","o","n","e","-","a","n","y",".","w","h","l">>

whl_torchvision == <<"t","o","r","c","h","v","i","s","i","o","n","-","0",".","2","-","p","y","3","-","n","o","n","e","-","a","n","y",".","w","h","l">>

whl_triton_kernels == <<"t","r","i","t","o","n","_","k","e","r","n","e","l","s","-","1",".","0","-","p","y","3","-","n","o","n","e","-","a","n","y",".","w","h","l">>

whl_short == <<"t","o","r","c","h","-","2",".","8",".","w","h","l">>

whl_numpy == <<"n","u","m","p","y","-","1",".","0","-","p","y","3","-","n","o","n","e","-","a","n","y",".","w","h","l">>

DirEntries == { whl_torch, whl_torchvision, whl_triton_kernels, whl_short, whl_numpy }

ln_unquoted == <<"t","o","r","c","h"," ",">","="," ","2",".","0","\n">>

ln_indented == <<" ","t","o","r","c","h",">","=","2",".","0","\n">>

ln_double == <<" "," ","\"","t","o","r","c","h"," ",">","="," ","2",".","0","\"",",","\n">>

ln_pytorch == <<"p","y","t","o","r","c","h"," ","="," ","\"",">","="," ","1",".","0","\"","\n">>

ln_torchvision == <<" ","t","o","r","c","h","v","i","s","i","o","n",">","=","0",".","1","\n">>

ln_kernels == <<"'","t","r","i","t","o","n","_","k","e","r","n","e","l","s",">","=","0",".","9","'","\n">>

ManifestLines == { ln_unquoted, ln_indented, ln_double, ln_pytorch, ln_torchvision, ln_kernels }

InstallDirs ==
    { [exists |-> FALSE, entries |-> <<>>] }
    \cup { [exists |-> TRUE, entries |-> a] : a \in { b \in Arrangements(DirEntries, MaxWheels) : Distinct(b) } }

Manifests ==
    { Absent }
    \cup { File(Concat(ls)) : ls \in { b \in Arrangements(ManifestLines, MaxLines) : Distinct(b) } }

-----------------------------------------------------------------------------
(* main() of pin_rocm_dependencies.py, one action per step *)

Init ==
    /\ install_dir \in InstallDirs
    /\ pyproject_file \in Manifests
    /\ backup_file = Absent
    /\ versions = <<>>
    /\ content = <<>>
    /\ modifications = <<>>
    /\ pc = "scan"
    /\ exit_status = -1
    /\ pre_run = pyproject_file
    /\ runs = 1
    /\ original = pyproject_file
    /\ ExtractIdle
    /\ IndexIdle
    /\ CallIdle
    /\ NormIdle

-----------------------------------------------------------------------------
(* extract_wheel_metadata of generate_s3_index.py *)

Rejected == [ok |-> FALSE, distribution |-> <<>>, version |-> <<>>, python_tag |-> <<>>]

\* the extractor with the minimum field count off by one
extract_wheel_metadata_FourFields(name) ==
    IF ~endswith(name, s_whl) THEN Rejected
    ELSE LET parts == split(Slice(name, 1, Len(name) - 4), "-")
         IN  IF Len(parts) < 4 THEN Rejected
             ELSE [ok |-> TRUE,
                   distribution |-> parts[1],
                   version |-> parts[2],
                   python_tag |-> IF Len(parts) = 5 THEN parts[3] ELSE parts[4]]

\* the extractor taking the third field as the tag whatever the field count
extract_wheel_metadata_NoBuildTag(name) ==
    IF ~endswith(name, s_whl) THEN Rejected
    ELSE LET parts == split(Slice(name, 1, Len(name) - 4), "-")
         IN  IF Len(parts) < 5 THEN Rejected
             ELSE [ok |-> TRUE,
                   distribution |-> parts[1],
                   version |-> parts[2],
                   python_tag |-> parts[3]]

extract_wheel_metadata(name) ==
    IF ~endswith(name, s_whl) THEN Rejected
    ELSE LET parts == split(Slice(name, 1, Len(name) - 4), "-")
         IN  IF Len(parts) < 5 THEN Rejected
             ELSE [ok |-> TRUE,
                   distribution |-> parts[1],
                   version |-> parts[2],
                   python_tag |-> IF Len(parts) = 5 THEN parts[3] ELSE parts[4]]

-----------------------------------------------------------------------------
(* The extractor called on its own, on filenames formatted from fields *)

f_demo == <<"d","e","m","o">>

f_one  == <<"1">>

f_py3  == <<"p","y","3">>

f_one_whl == <<"1",".","w","h","l">>

FieldPool == { f_demo, f_one, f_py3, f_one_whl }

s_zip == <<".","z","i","p">>

ExtensionPool == { s_whl, s_zip, <<>> }

\* {field}-{field}-...{extension}
FormatFilename(fs, ext) == join(fs, <<"-">>) \o ext

InitExtract ==
    /\ fields \in UNION { [1..n -> FieldPool] : n \in 1..MaxFields }
    /\ extension \in ExtensionPool
    /\ filename = FormatFilename(fields, extension)
    /\ extracted = [state |-> "pending"]
    /\ parsed = [state |-> "pending"]
    /\ PinIdle
    /\ IndexIdle
    /\ CallIdle
    /\ NormIdle

\* extract_wheel_metadata(Path(filename))
Extract ==
    /\ extracted.state = "pending"
    /\ extracted' = [state |-> "returned", result |-> extract_wheel_metadata(filename)]
    /\ UNCHANGED <<fields, extension, filename, parsed>>
    /\ UNCHANGED <<pinVars, indexVars, callVars, normVars>>

\* version = extract_version_from_wheel(filename), inside the try of the scan
ParseVersion ==
    /\ parsed.state = "pending"
    /\ parsed' = [state |-> "returned", result |-> extract_version_from_wheel(filename)]
    /\ UNCHANGED <<fields, extension, filename, extracted>>
    /\ UNCHANGED <<pinVars, indexVars, callVars, normVars>>

NextExtract ==
    \/ Extract
    \/ ParseVersion

SpecExtract == InitExtract /\ [][NextExtract]_vars

\* sys.exit(status)
Exit(status) == pc' = "exit" /\ exit_status' = status

\* versions = get_custom_wheel_versions(install_dir)
Scan ==
    /\ pc = "scan"
    /\ UNCHANGED <<extractVars, indexVars, callVars, normVars>>
    /\ UNCHANGED original
    /\ IF ~install_dir.exists
       THEN Exit(1) /\ UNCHANGED versions
       ELSE /\ versions' = get_custom_wheel_versions(install_dir.entries)
            /\ pc' = "check"
            /\ UNCHANGED exit_status
    /\ UNCHANGED <<install_dir, pyproject_file, backup_file, content, modifications, pre_run, runs>>

\* the check of the scan result left out
CheckVersions_NoExit ==
    /\ pc = "check"
    /\ pc' = "exists"
    /\ UNCHANGED <<install_dir, pyproject_file, backup_file, versions, content,
                   modifications, exit_status, pre_run, runs>>
    /\ UNCHANGED <<extractVars, indexVars, callVars, normVars>>
    /\ UNCHANGED original

\* if not versions: sys.exit(1)
CheckVersions ==
    /\ pc = "check"
    /\ UNCHANGED <<extractVars, indexVars, callVars, normVars>>
    /\ UNCHANGED original
    /\ IF versions = <<>> THEN Exit(1) ELSE pc' = "exists" /\ UNCHANGED exit_status
    /\ UNCHANGED <<install_dir, pyproject_file, backup_file, versions, content,
                   modifications, pre_run, runs>>

\* if not pyproject_file.exists(): sys.exit(1)
CheckManifest ==
    /\ pc = "exists"
    /\ UNCHANGED <<extractVars, indexVars, callVars, normVars>>
    /\ UNCHANGED original
    /\ IF ~pyproject_file.exists THEN Exit(1) ELSE pc' = "rename" /\ UNCHANGED exit_status
    /\ UNCHANGED <<install_dir, pyproject_file, backup_file, versions, content,
                   modifications, pre_run, runs>>

\* the rename keeping a backup file that is already there
RenameToBackup_KeepOld ==
    /\ pc = "rename"
    /\ backup_file' = IF backup_file.exists THEN backup_file ELSE pyproject_file
    /\ pyproject_file' = Absent
    /\ pc' = "read"
    /\ UNCHANGED <<install_dir, versions, content, modifications, exit_status, pre_run, runs>>
    /\ UNCHANGED <<extractVars, indexVars, callVars, normVars>>
    /\ UNCHANGED original

\* pyproject_file.rename(backup_file)
RenameToBackup ==
    /\ pc = "rename"
    /\ UNCHANGED <<extractVars, indexVars, callVars, normVars>>
    /\ UNCHANGED original
    /\ backup_file' = pyproject_file
    /\ pyproject_file' = Absent
    /\ pc' = "read"
    /\ UNCHANGED <<install_dir, versions, content, modifications, exit_status, pre_run, runs>>

\* with open(backup_file, 'r') as f: content = f.read()
ReadBackup ==
    /\ pc = "read"
    /\ UNCHANGED <<extractVars, indexVars, callVars, normVars>>
    /\ UNCHANGED original
    /\ content' = backup_file.data
    /\ pc' = "rewrite"
    /\ UNCHANGED <<install_dir, pyproject_file, backup_file, versions, modifications,
                   exit_status, pre_run, runs>>

\* the loops over versions.items() and patterns
Rewrite ==
    /\ pc = "rewrite"
    /\ UNCHANGED <<extractVars, indexVars, callVars, normVars>>
    /\ UNCHANGED original
    /\ LET st == Rewritten(content, versions)
       IN  content' = st.content /\ modifications' = st.modifications
    /\ pc' = "open"
    /\ UNCHANGED <<install_dir, pyproject_file, backup_file, versions, exit_status, pre_run, runs>>

\* open(pyproject_file, 'w'): the file is created empty
OpenForWrite ==
    /\ pc = "open"
    /\ UNCHANGED <<extractVars, indexVars, callVars, normVars>>
    /\ UNCHANGED original
    /\ pyproject_file' = File(<<>>)
    /\ pc' = "write"
    /\ UNCHANGED <<install_dir, backup_file, versions, content, modifications,
                   exit_status, pre_run, runs>>

\* f.write(content)
WriteContent ==
    /\ pc = "write"
    /\ UNCHANGED <<extractVars, indexVars, callVars, normVars>>
    /\ UNCHANGED original
    /\ pyproject_file' = File(content)
    /\ pc' = "report"
    /\ UNCHANGED <<install_dir, backup_file, versions, content, modifications,
                   exit_status, pre_run, runs>>

\* the summary, then sys.exit(0)
Report ==
    /\ pc = "report"
    /\ UNCHANGED <<extractVars, indexVars, callVars, normVars>>
    /\ UNCHANGED original
    /\ Exit(0)
    /\ UNCHANGED <<install_dir, pyproject_file, backup_file, versions, content,
                   modifications, pre_run, runs>>

\* after a successful run the script is invoked again on the same directory
\* and manifest path
Rerun ==
    /\ pc = "exit"
    /\ exit_status = 0
    /\ UNCHANGED <<extractVars, indexVars, callVars, normVars>>
    /\ UNCHANGED original
    /\ runs < MaxRuns
    /\ runs' = runs + 1
    /\ pre_run' = pyproject_file
    /\ versions' = <<>>
    /\ content' = <<>>
    /\ modifications' = <<>>
    /\ pc' = "scan"
    /\ exit_status' = -1
    /\ UNCHANGED <<install_dir, pyproject_file, backup_file>>

Next ==
    \/ Scan
    \/ CheckVersions
    \/ CheckManifest
    \/ RenameToBackup
    \/ ReadBackup
    \/ Rewrite
    \/ OpenForWrite
    \/ WriteContent
    \/ Report
    \/ Rerun

Spec == Init /\ [][Next]_vars

-----------------------------------------------------------------------------
(* Character order and case, for sorted() and str.lower() *)

\* the characters of names and paths, in code point order
Ascii == <<"+","-",".","0","1","2","3","4","5","6","7","8","9",
           "A","B","C","D","E","F","G","H","I","J","K","L","M",
           "N","O","P","Q","R","S","T","U","V","W","X","Y","Z","_",
           "a","b","c","d","e","f","g","h","i","j","k","l","m",
           "n","o","p","q","r","s","t","u","v","w","x","y","z">>

Code(c) == CHOOSE i \in 1..Len(Ascii) : Ascii[i] = c

IsUpper(c) == \E i \in 14..39 : Ascii[i] = c

\* str.lower() on one character
LowerChar(c) == IF IsUpper(c) THEN Ascii[Code(c) + 27] ELSE c

lower(s) == [i \in 1..Len(s) |-> LowerChar(s[i])]

\* a < b for str
RECURSIVE StrLess(_, _)
StrLess(a, b) ==
    IF Len(b) = 0 THEN FALSE
    ELSE IF Len(a) = 0 THEN TRUE
    ELSE IF a[1] = b[1] THEN StrLess(Tail(a), Tail(b))
    ELSE Code(a[1]) < Code(b[1])

\* a < b for Path: the lists of path components are compared
RECURSIVE PathLess(_, _)
PathLess(a, b) ==
    IF Len(b) = 0 THEN FALSE
    ELSE IF Len(a) = 0 THEN TRUE
    ELSE IF a[1] = b[1] THEN PathLess(Tail(a), Tail(b))
    ELSE StrLess(a[1], b[1])

\* sorted(wheels, reverse=True) on a list of files, ordered by their paths
RECURSIVE InsertDescending(_, _)
InsertDescending(sorted, w) ==
    IF Len(sorted) = 0 THEN << w >>
    ELSE IF PathLess(sorted[1].path, w.path) THEN << w >> \o sorted
    ELSE << sorted[1] >> \o InsertDescending(Tail(sorted), w)

RECURSIVE SortedDescending(_)
SortedDescending(wheels) ==
    IF Len(wheels) = 0 THEN <<>>
    ELSE InsertDescending(SortedDescending(SubSeq(wheels, 1, Len(wheels) - 1)),
                          wheels[Len(wheels)])

\* sorted(packages) on a list of names
RECURSIVE InsertAscending(_, _)
InsertAscending(sorted, n) ==
    IF Len(sorted) = 0 THEN << n >>
    ELSE IF StrLess(n, sorted[1]) THEN << n >> \o sorted
    ELSE << sorted[1] >> \o InsertAscending(Tail(sorted), n)

RECURSIVE SortedAscending(_)
SortedAscending(names) ==
    IF Len(names) = 0 THEN <<>>
    ELSE InsertAscending(SortedAscending(SubSeq(names, 1, Len(names) - 1)),
                         names[Len(names)])

-----------------------------------------------------------------------------
(* Functions of generate_s3_index.py *)

IsSeparator(c) == c \in {"-", "_", "."}

\* re.sub(r"[-_.]+", "-", name).lower()
RECURSIVE CollapseFrom(_, _)
CollapseFrom(s, i) ==
    IF i > Len(s) THEN <<>>
    ELSE IF IsSeparator(s[i])
         THEN IF i > 1 /\ IsSeparator(s[i - 1]) THEN CollapseFrom(s, i + 1)
              ELSE <<"-">> \o CollapseFrom(s, i + 1)
         ELSE <<s[i]>> \o CollapseFrom(s, i + 1)

\* the function replacing each separator character on its own
normalize_package_name_EachSeparator(name) ==
    lower([i \in 1..Len(name) |-> IF IsSeparator(name[i]) THEN "-" ELSE name[i]])

normalize_package_name(name) == lower(CollapseFrom(name, 1))

\* the file name of a path: its last component
NameOf(path) == path[Len(path)]

\* calculate_sha256: the digest of the file's bytes, or an exception when
\* the file cannot be read
calculate_sha256(file) ==
    IF file.readable THEN [ok |-> TRUE, hexdigest |-> file.digest]
    ELSE [ok |-> FALSE, hexdigest |-> <<>>]

s_ge_escaped == <<"&","g","t",";","=">>

python_tag_to_requires_python(python_tag) ==
    LET version_str == Slice(python_tag, 3, Len(python_tag))
    IN  IF startswith(python_tag, <<"c","p">>)
        THEN IF Len(version_str) >= 2
             THEN s_ge_escaped \o <<version_str[1]>> \o <<".">> \o Tail(version_str)
             ELSE <<>>
        ELSE IF startswith(python_tag, <<"p","y">>)
        THEN IF version_str # <<>>
             THEN IF "." \notin Range(version_str) /\ Len(version_str) > 1
                  THEN s_ge_escaped \o <<version_str[1]>> \o <<".">> \o Tail(version_str)
                  ELSE s_ge_escaped \o version_str \o <<".","0">>
             ELSE <<>>
        ELSE <<>>

s_packages == <<"/","p","a","c","k","a","g","e","s","/">>

\* the anchor losing every annotation when the digest fails
WheelLink_BareOnFailure(file, base_url, hashes, metadata) ==
    LET wheel_name == NameOf(file.path)
        meta == extract_wheel_metadata(wheel_name)
        requires_python == IF meta.ok THEN python_tag_to_requires_python(meta.python_tag) ELSE <<>>
        sha256 == calculate_sha256(file)
    IN  [attributes |->
             << [attr |-> "href", value |-> base_url \o s_packages \o wheel_name] >>
             \o (IF metadata /\ requires_python # <<>> /\ (hashes => sha256.ok)
                 THEN << [attr |-> "data-requires-python", value |-> requires_python] >>
                 ELSE <<>>)
             \o (IF hashes /\ sha256.ok
                 THEN << [attr |-> "data-dist-info-metadata",
                          value |-> <<"s","h","a","2","5","6","=">> \o sha256.hexdigest] >>
                 ELSE <<>>),
         text |-> wheel_name]

\* the attributes list and the text of the anchor built for one wheel
WheelLink(file, base_url, hashes, metadata) ==
    LET wheel_name == NameOf(file.path)
        meta == extract_wheel_metadata(wheel_name)
        requires_python == IF meta.ok THEN python_tag_to_requires_python(meta.python_tag) ELSE <<>>
        sha256 == calculate_sha256(file)
    IN  [attributes |->
             << [attr |-> "href", value |-> base_url \o s_packages \o wheel_name] >>
             \o (IF metadata /\ requires_python # <<>>
                 THEN << [attr |-> "data-requires-python", value |-> requires_python] >>
                 ELSE <<>>)
             \o (IF hashes /\ sha256.ok
                 THEN << [attr |-> "data-dist-info-metadata",
                          value |-> <<"s","h","a","2","5","6","=">> \o sha256.hexdigest] >>
                 ELSE <<>>),
         text |-> wheel_name]

\* the document listing the wheels in the order they were grouped
generate_package_index_Unsorted(package_name, wheels, base_url, hashes, metadata) ==
    [title |-> package_name,
     links |-> [i \in 1..Len(wheels) |-> WheelLink(wheels[i], base_url, hashes, metadata)]]

\* the document of one package: its title and its anchors, in order
generate_package_index(package_name, wheels, base_url, hashes, metadata) ==
    LET ordered == SortedDescending(wheels)
    IN  [title |-> package_name,
         links |-> [i \in 1..Len(ordered) |-> WheelLink(ordered[i], base_url, hashes, metadata)]]

\* the top-level document listing the names in the order of the dict
generate_main_index_Unsorted(names) ==
    [links |-> [i \in 1..Len(names) |->
                  [href |-> names[i] \o <<"/">>, text |-> names[i]]]]

\* the top-level document: one anchor per package name, in order
generate_main_index(names) ==
    LET ordered == SortedAscending(names)
    IN  [links |-> [i \in 1..Len(ordered) |->
                      [href |-> ordered[i] \o <<"/">>, text |-> ordered[i]]]]

\* the landing page: the provenance fields and the number of wheels
generate_landing_page(base_url, build_date, total_wheels) ==
    [s3_url |-> base_url, build_date |-> build_date, total_wheels |-> total_wheels]

\* packages[normalized_name].append(wheel_path) on the defaultdict
GroupAppend(d, name, file) ==
    IF \E i \in 1..Len(d) : d[i].name = name
    THEN [i \in 1..Len(d) |->
            IF d[i].name = name THEN [name |-> name, wheels |-> Append(d[i].wheels, file)]
            ELSE d[i]]
    ELSE Append(d, [name |-> name, wheels |-> << file >>])

\* the grouping loop: a wheel whose name does not parse is skipped
RECURSIVE GroupAll(_, _)
GroupAll(d, wheels) ==
    IF Len(wheels) = 0 THEN d
    ELSE LET meta == extract_wheel_metadata(NameOf(wheels[1].path))
         IN  GroupAll(IF meta.ok
                      THEN GroupAppend(d, normalize_package_name(meta.distribution), wheels[1])
                      ELSE d,
                      Tail(wheels))

\* wheels_dir.rglob("*.whl"): the files at any depth whose name ends in .whl
rglob_whl(entries) == SelectSeq(entries, LAMBDA f : endswith(NameOf(f.path), s_whl))

-----------------------------------------------------------------------------
(* Inputs of the synthesizer *)

n_demo10 == <<"d","e","m","o","-","1",".","0","-","p","y","3","-","n","o","n","e","-","a","n","y",".","w","h","l">>

n_demo09 == <<"d","e","m","o","-","0",".","9","-","c","p","3","1","2","-","c","p","3","1","2","-","l","i","n","u","x",".","w","h","l">>

n_Demo_X == <<"D","e","m","o","_","X","-","2",".","0","-","1","-","p","y","3","-","n","o","n","e","-","a","n","y",".","w","h","l">>

n_demo_dot_x == <<"d","e","m","o",".","x","-","1",".","0","-","p","y","3","9","-","n","o","n","e","-","a","n","y",".","w","h","l">>

n_noname == <<"-","1",".","0","-","p","y","3","-","n","o","n","e","-","a","n","y",".","w","h","l">>

n_bad == <<"b","a","d",".","w","h","l">>

n_notes == <<"n","o","t","e","s",".","t","x","t">>

d_sub == <<"s","u","b">>

\* the files an artifact directory may hold: path below the directory,
\* whether the file can be read, and the SHA-256 of its bytes
ArtifactPool == {
    [path |-> << n_demo10 >>,           readable |-> TRUE,  digest |-> <<"a","1">>],
    [path |-> << d_sub, n_demo09 >>,    readable |-> TRUE,  digest |-> <<"b","2">>],
    [path |-> << n_Demo_X >>,           readable |-> FALSE, digest |-> <<"c","3">>],
    [path |-> << d_sub, n_demo_dot_x >>, readable |-> TRUE, digest |-> <<"d","4">>],
    [path |-> << n_bad >>,              readable |-> TRUE,  digest |-> <<"e","5">>],
    [path |-> << n_noname >>,           readable |-> TRUE,  digest |-> <<"a","7">>],
    [path |-> << n_notes >>,            readable |-> TRUE,  digest |-> <<"f","6">>] }

WheelsDirs ==
    { [exists |-> FALSE, entries |-> <<>>] }
    \cup { [exists |-> TRUE, entries |-> a] :
              a \in { b \in Arrangements(ArtifactPool, MaxArtifacts) : Distinct(b) } }

\* args.s3_url
s3_url == <<"h","t","t","p","s",":","/","/","s","3">>

\* the values datetime.utcnow() may format to
BuildDates == { <<"2","0","2","5">>, <<"2","0","2","6">> }

-----------------------------------------------------------------------------
(* main() of generate_s3_index.py, one action per step *)

InitIndex ==
    /\ wheels_dir \in WheelsDirs
    /\ add_hashes \in BOOLEAN
    /\ add_metadata \in BOOLEAN
    /\ all_wheels = <<>>
    /\ packages = <<>>
    /\ todo = <<>>
    /\ output_dir = EmptyOutput
    /\ ipc = "validate"
    /\ index_status = -1
    /\ index_runs = 1
    /\ previous_output = EmptyOutput
    /\ PinIdle
    /\ ExtractIdle
    /\ CallIdle
    /\ NormIdle

\* sys.exit(status), or the return of main()
IndexExit(status) == ipc' = "exit" /\ index_status' = status

\* if not args.wheels_dir.exists(): sys.exit(1)
Validate ==
    /\ ipc = "validate"
    /\ IF ~wheels_dir.exists THEN IndexExit(1) ELSE ipc' = "collect" /\ UNCHANGED index_status
    /\ UNCHANGED <<wheels_dir, add_hashes, add_metadata, all_wheels, packages, todo, output_dir>>
    /\ UNCHANGED <<index_runs, previous_output>>
    /\ UNCHANGED <<pinVars, extractVars, callVars, normVars>>

\* the collection without the check for an empty result
Collect_NoCheck ==
    /\ ipc = "collect"
    /\ all_wheels' = rglob_whl(wheels_dir.entries)
    /\ ipc' = "group"
    /\ UNCHANGED <<wheels_dir, add_hashes, add_metadata, packages, todo, output_dir, index_status>>
    /\ UNCHANGED <<index_runs, previous_output>>
    /\ UNCHANGED <<pinVars, extractVars, callVars, normVars>>

\* all_wheels = list(rglob("*.whl")); if not all_wheels: sys.exit(1)
Collect ==
    /\ ipc = "collect"
    /\ all_wheels' = rglob_whl(wheels_dir.entries)
    /\ IF all_wheels' = <<>> THEN IndexExit(1) ELSE ipc' = "group" /\ UNCHANGED index_status
    /\ UNCHANGED <<wheels_dir, add_hashes, add_metadata, packages, todo, output_dir>>
    /\ UNCHANGED <<index_runs, previous_output>>
    /\ UNCHANGED <<pinVars, extractVars, callVars, normVars>>

\* the loop that groups the wheels by normalized package name
Group ==
    /\ ipc = "group"
    /\ packages' = GroupAll(<<>>, all_wheels)
    /\ ipc' = "mkdir"
    /\ UNCHANGED <<wheels_dir, add_hashes, add_metadata, all_wheels, todo, output_dir, index_status>>
    /\ UNCHANGED <<index_runs, previous_output>>
    /\ UNCHANGED <<pinVars, extractVars, callVars, normVars>>

\* simple_dir.mkdir(parents=True, exist_ok=True)
MakeSimpleDir ==
    /\ ipc = "mkdir"
    /\ output_dir' = [output_dir EXCEPT !.simple_dir = TRUE]
    /\ todo' = packages
    /\ ipc' = "packages"
    /\ UNCHANGED <<wheels_dir, add_hashes, add_metadata, all_wheels, packages, index_status>>
    /\ UNCHANGED <<index_runs, previous_output>>
    /\ UNCHANGED <<pinVars, extractVars, callVars, normVars>>

\* pkg_dir = simple_dir / pkg_name; pkg_dir.mkdir(exist_ok=True);
\* (pkg_dir / "index.html").write_text(index_html).  With an empty pkg_name
\* the path simple_dir / "" is simple_dir itself, so nothing is made and the
\* text goes to simple/index.html.
WritePage(tree, pkg_name, index_html) ==
    IF pkg_name = <<>>
    THEN [tree EXCEPT !.main_index = File(index_html)]
    ELSE [tree EXCEPT
            !.package_dirs = @ \cup { pkg_name },
            !.package_pages = { pg \in @ : pg.name # pkg_name }
                              \cup { [name |-> pkg_name, page |-> index_html] }]

\* one round of the loop over packages.items(): the package directory is
\* made and its index.html written
WritePackage ==
    /\ ipc = "packages"
    /\ todo # <<>>
    /\ output_dir' =
          WritePage(output_dir, todo[1].name,
                    generate_package_index(todo[1].name, todo[1].wheels, s3_url,
                                           add_hashes, add_metadata))
    /\ todo' = Tail(todo)
    /\ UNCHANGED <<wheels_dir, add_hashes, add_metadata, all_wheels, packages, ipc, index_status>>
    /\ UNCHANGED <<index_runs, previous_output>>
    /\ UNCHANGED <<pinVars, extractVars, callVars, normVars>>

\* (simple_dir / "index.html").write_text(generate_main_index(...))
WriteMainIndex ==
    /\ ipc = "packages"
    /\ todo = <<>>
    /\ output_dir' =
          [output_dir EXCEPT
             !.main_index = File(generate_main_index([i \in 1..Len(packages) |-> packages[i].name]))]
    /\ ipc' = "landing"
    /\ UNCHANGED <<wheels_dir, add_hashes, add_metadata, all_wheels, packages, todo, index_status>>
    /\ UNCHANGED <<index_runs, previous_output>>
    /\ UNCHANGED <<pinVars, extractVars, callVars, normVars>>

\* (args.output_dir / "index.html").write_text(landing_page)
WriteLandingPage ==
    /\ ipc = "landing"
    /\ \E build_date \in BuildDates :
          output_dir' =
             [output_dir EXCEPT
                !.landing_page = File(generate_landing_page(s3_url, build_date, Len(all_wheels)))]
    /\ ipc' = "summary"
    /\ UNCHANGED <<wheels_dir, add_hashes, add_metadata, all_wheels, packages, todo, index_status>>
    /\ UNCHANGED <<index_runs, previous_output>>
    /\ UNCHANGED <<pinVars, extractVars, callVars, normVars>>

\* the summary is printed and main() returns
Summary ==
    /\ ipc = "summary"
    /\ IndexExit(0)
    /\ UNCHANGED <<wheels_dir, add_hashes, add_metadata, all_wheels, packages, todo, output_dir>>
    /\ UNCHANGED <<index_runs, previous_output>>
    /\ UNCHANGED <<pinVars, extractVars, callVars, normVars>>

\* the orders in which the filesystem may enumerate the same files
Reorderings(entries) ==
    { a \in Arrangements(Range(entries), Len(entries)) :
          Len(a) = Len(entries) /\ Distinct(a) }

\* the synthesizer is run again on the unchanged artifact directory, with
\* the same options and the output tree of the last run in place
RerunIndex ==
    /\ ipc = "exit"
    /\ index_status = 0
    /\ index_runs < MaxIndexRuns
    /\ \E a \in Reorderings(wheels_dir.entries) :
          wheels_dir' = [wheels_dir EXCEPT !.entries = a]
    /\ previous_output' = output_dir
    /\ all_wheels' = <<>>
    /\ packages' = <<>>
    /\ ipc' = "validate"
    /\ index_status' = -1
    /\ index_runs' = index_runs + 1
    /\ UNCHANGED <<add_hashes, add_metadata, todo, output_dir>>
    /\ UNCHANGED <<pinVars, extractVars, callVars, normVars>>

NextIndex ==
    \/ RerunIndex
    \/ Validate
    \/ Collect
    \/ Group
    \/ MakeSimpleDir
    \/ WritePackage
    \/ WriteMainIndex
    \/ WriteLandingPage
    \/ Summary

SpecIndex == InitIndex /\ [][NextIndex]_vars

-----------------------------------------------------------------------------
(* Runs of the synthesizer into one output directory while the artifact
   directory changes between the runs *)

\* the entries with the one at position i taken away
Without(entries, i) == Slice(entries, 1, i - 1) \o Slice(entries, i + 1, Len(entries))

\* the artifact directory after one file was removed from it or added to it
ChangedEntries(entries) ==
    { Without(entries, i) : i \in 1..Len(entries) }
    \cup { Append(entries, f) : f \in { g \in ArtifactPool :
                                           /\ Len(entries) < MaxArtifacts
                                           /\ g \notin Range(entries) } }

\* the synthesizer is run again after the artifact directory changed, with
\* the same options and the output tree of the last run in place
RerunIndexChanged ==
    /\ ipc = "exit"
    /\ index_status = 0
    /\ index_runs < MaxIndexRuns
    /\ \E a \in ChangedEntries(wheels_dir.entries) :
          wheels_dir' = [wheels_dir EXCEPT !.entries = a]
    /\ previous_output' = output_dir
    /\ all_wheels' = <<>>
    /\ packages' = <<>>
    /\ ipc' = "validate"
    /\ index_status' = -1
    /\ index_runs' = index_runs + 1
    /\ UNCHANGED <<add_hashes, add_metadata, todo, output_dir>>
    /\ UNCHANGED <<pinVars, extractVars, callVars, normVars>>

NextIndexReuse ==
    \/ NextIndex
    \/ RerunIndexChanged

SpecIndexReuse == InitIndex /\ [][NextIndexReuse]_vars

-----------------------------------------------------------------------------
(* normalize_wheel_filename of normalize_wheel_versions.py *)

\* wheel_path.parent
Parent(path) == Slice(path, 1, Len(path) - 1)

\* the function cutting the version field at its last '+' instead of its first
normalize_wheel_filename_LastPlus(wheel_path) ==
    LET parts == split(NameOf(wheel_path), "-")
    IN  IF ~endswith(NameOf(wheel_path), s_whl) THEN wheel_path
        ELSE IF Len(parts) < 3 THEN wheel_path
        ELSE IF "+" \notin Range(parts[2]) THEN wheel_path
        ELSE Parent(wheel_path)
               \o << parts[1] \o <<"-">>
                        \o join(SubSeq(split(parts[2], "+"), 1, Len(split(parts[2], "+")) - 1), <<"+">>)
                        \o <<"-">>
                        \o join(SubSeq(parts, 3, Len(parts)), <<"-">>) >>

normalize_wheel_filename(wheel_path) ==
    LET parts == split(NameOf(wheel_path), "-")
    IN  IF ~endswith(NameOf(wheel_path), s_whl) THEN wheel_path
        ELSE IF Len(parts) < 3 THEN wheel_path
        ELSE IF "+" \notin Range(parts[2]) THEN wheel_path
        ELSE Parent(wheel_path)
               \o << parts[1] \o <<"-">> \o split(parts[2], "+")[1] \o <<"-">>
                        \o join(SubSeq(parts, 3, Len(parts)), <<"-">>) >>

-----------------------------------------------------------------------------
(* normalize_wheels_in_directory of normalize_wheel_versions.py *)

w_local_x == <<"d","e","m","o","-","1",".","0","+","x","-","p","y","3","-","n","o","n","e","-","a","n","y",".","w","h","l">>

w_local_y == <<"d","e","m","o","-","1",".","0","+","y","-","p","y","3","-","n","o","n","e","-","a","n","y",".","w","h","l">>

w_plain == <<"d","e","m","o","-","1",".","0","-","p","y","3","-","n","o","n","e","-","a","n","y",".","w","h","l">>

w_other == <<"o","t","h","e","r","-","2",".","0","+","z","-","p","y","3","-","n","o","n","e","-","a","n","y",".","w","h","l">>

\* the files a directory may hold: name, the SHA-256 of the bytes, and
\* whether the operating system lets the file be renamed
FilePool == {
    [name |-> w_local_x, digest |-> <<"a","1">>, movable |-> TRUE],
    [name |-> w_local_y, digest |-> <<"b","2">>, movable |-> TRUE],
    [name |-> w_plain,   digest |-> <<"c","3">>, movable |-> TRUE],
    [name |-> w_other,   digest |-> <<"d","4">>, movable |-> FALSE],
    [name |-> n_notes,   digest |-> <<"f","6">>, movable |-> TRUE] }

Directories == { a \in Arrangements(FilePool, MaxFiles) : Distinct(a) }

\* directory.glob("*.whl"): the names ending in .whl, in enumeration order
glob_names(files) ==
    LET found == SelectSeq(files, LAMBDA f : endswith(f.name, s_whl))
    IN  [i \in 1..Len(found) |-> found[i].name]

Exists(files, name) == \E i \in 1..Len(files) : files[i].name = name

FileNamed(files, name) == files[CHOOSE i \in 1..Len(files) : files[i].name = name]

\* wheel_path.rename(new_path)
Renamed(files, name, new_name) ==
    [i \in 1..Len(files) |->
        IF files[i].name = name THEN [files[i] EXCEPT !.name = new_name] ELSE files[i]]

\* the counter and the total both advance
Counted_AlsoTotal(st, key) == [st EXCEPT !.stats[key] = @ + 1, !.stats.total = @ + 1]

\* stats[key] += 1
Counted(st, key) == [st EXCEPT !.stats[key] = @ + 1]

\* the body of the loop without the check that the target exists
LoopBody_NoExistsCheck(st, wheel_name, dry) ==
    LET new_name == NameOf(normalize_wheel_filename(<< wheel_name >>))
    IN  IF new_name = wheel_name THEN Counted(st, "unchanged")
        ELSE IF dry THEN Counted(st, "normalized")
        ELSE IF ~FileNamed(st.files, wheel_name).movable THEN Counted(st, "errors")
        ELSE Counted([st EXCEPT !.files =
                        Renamed(SelectSeq(st.files, LAMBDA f : f.name # new_name),
                                wheel_name, new_name)],
                     "normalized")

\* the body of the loop for one wheel_path, on the files and the stats
LoopBody(st, wheel_name, dry) ==
    LET new_name == NameOf(normalize_wheel_filename(<< wheel_name >>))
    IN  IF new_name = wheel_name THEN Counted(st, "unchanged")
        ELSE IF dry THEN Counted(st, "normalized")
        ELSE IF Exists(st.files, new_name) THEN Counted(st, "errors")
        ELSE IF ~FileNamed(st.files, wheel_name).movable THEN Counted(st, "errors")
        ELSE Counted([st EXCEPT !.files = Renamed(st.files, wheel_name, new_name)],
                     "normalized")

RECURSIVE LoopFrom(_, _, _)
LoopFrom(st, names, dry) ==
    IF Len(names) = 0 THEN st ELSE LoopFrom(LoopBody(st, names[1], dry), Tail(names), dry)

\* the files and the stats the whole function leaves
normalize_wheels_in_directory(files, dry) ==
    LoopFrom([files |-> files,
              stats |-> [NoStats EXCEPT !.total = Len(glob_names(files))]],
             glob_names(files), dry)

InitNormalize ==
    /\ directory \in Directories
    /\ dry_run \in BOOLEAN
    /\ wheels_found = <<>>
    /\ remaining = <<>>
    /\ stats = NoStats
    /\ npc = "glob"
    /\ directory_before = directory
    /\ PinIdle
    /\ ExtractIdle
    /\ IndexIdle
    /\ CallIdle

\* wheels = list(directory.glob("*.whl")); the early return when it is empty
Glob ==
    /\ npc = "glob"
    /\ wheels_found' = glob_names(directory)
    /\ remaining' = wheels_found'
    /\ stats' = [NoStats EXCEPT !.total = Len(wheels_found')]
    /\ npc' = IF wheels_found' = <<>> THEN "returned" ELSE "loop"
    /\ UNCHANGED <<directory, dry_run, directory_before>>
    /\ UNCHANGED <<pinVars, extractVars, indexVars, callVars>>

\* one round of the loop over wheels
NormalizeOne ==
    /\ npc = "loop"
    /\ remaining # <<>>
    /\ LET st == LoopBody([files |-> directory, stats |-> stats], remaining[1], dry_run)
       IN  directory' = st.files /\ stats' = st.stats
    /\ remaining' = Tail(remaining)
    /\ UNCHANGED <<dry_run, wheels_found, npc, directory_before>>
    /\ UNCHANGED <<pinVars, extractVars, indexVars, callVars>>

\* return stats
ReturnStats ==
    /\ npc = "loop"
    /\ remaining = <<>>
    /\ npc' = "returned"
    /\ UNCHANGED <<directory, dry_run, wheels_found, remaining, stats, directory_before>>
    /\ UNCHANGED <<pinVars, extractVars, indexVars, callVars>>

NextNormalize ==
    \/ Glob
    \/ NormalizeOne
    \/ ReturnStats

SpecNormalize == InitNormalize /\ [][NextNormalize]_vars

-----------------------------------------------------------------------------
(* select_versions_to_download of download_dependency_wheels.py *)

Least(a, b) == IF a <= b THEN a ELSE b

\* the function returned value
Returns(value) == [raised |-> "", value |-> value]

\* the function raised an exception of the named class
Raises(class) == [raised |-> class, value |-> <<>>]

\* the list the function returns, or the exception it raises; all_versions[k + 1]
\* here is versions[k] of the source
select_versions_to_download(all_versions, max_versions) ==
    IF all_versions = <<>> THEN Returns(<<>>)
    ELSE IF Len(all_versions) <= max_versions THEN Returns(all_versions)
    ELSE IF max_versions - 1 = 0 THEN Raises("ZeroDivisionError")
    ELSE LET step == Len(all_versions) \div (max_versions - 1)
             middle == [i \in 1..(max_versions - 2) |->
                           all_versions[Least(i * step, Len(all_versions) - 1) + 1]]
             selected == << all_versions[1] >> \o middle
         IN  Returns(IF all_versions[Len(all_versions)] \notin Range(selected)
                     THEN Append(selected, all_versions[Len(all_versions)])
                     ELSE selected)

-----------------------------------------------------------------------------
(* The pure functions called on their own, on inputs drawn from pools *)

NameChars == { "a", "A", "-", "_", "." }

Names == UNION { [1..n -> NameChars] : n \in 0..MaxName }

\* b is a with the character at one position changed in case, or changed
\* from one separator to another
RespeltAt(a, b) ==
    /\ Len(a) = Len(b)
    /\ \E i \in 1..Len(a) :
          /\ a[i] # b[i]
          /\ \A j \in 1..Len(a) : j # i => a[j] = b[j]
          /\ \/ LowerChar(a[i]) = LowerChar(b[i])
             \/ IsSeparator(a[i]) /\ IsSeparator(b[i])

\* b is a with one more separator put next to a separator of a
Widened(a, b) ==
    /\ Len(b) = Len(a) + 1
    /\ \E i \in 1..Len(b) :
          /\ IsSeparator(b[i])
          /\ a = Slice(b, 1, i - 1) \o Slice(b, i + 1, Len(b))
          /\ \/ i > 1 /\ IsSeparator(b[i - 1])
             \/ i < Len(b) /\ IsSeparator(b[i + 1])

\* a and b differ in the case of one letter or in one separator run
SameButCaseOrSeparators(a, b) == RespeltAt(a, b) \/ Widened(a, b) \/ Widened(b, a)

TagPrefixes == { <<"c","p">>, <<"p","y">>, <<"p","p">>, <<>> }

TagSuffixes == { <<>>, <<"3">>, <<"3","9">>, <<"3","1","2">>, <<"x">>, <<"a","b","c">>,
                 <<"3","x">>, <<"2",".","p","y","3">> }

PythonTags == { p \o x : p \in TagPrefixes, x \in TagSuffixes }

f_local == <<"2",".","9","+","g","1">>

f_local_twice == <<"1","+","a","+","b">>

LocalFieldPool == { f_demo, f_local, f_local_twice }

MaxSegments == 6    \* hyphen-delimited fields of a filename given to normalize_wheel_filename

Parents == { <<>>, << d_sub >> }

MaxListed == 6      \* versions in the list given to select_versions_to_download

MaxWanted == 4      \* the max_versions argument

\* the version string of the k-th release of a package
Release(k) == << ToString(k), ".", "0" >>

\* the matching versions as get_pypi_package_versions sorts them, newest first
NewestFirst(n) == [i \in 1..n |-> Release(n + 1 - i)]

Calls ==
    { c \in [fn : {"normalize_package_name"}, arg : Names, other : Names, max_versions : {0}] :
          SameButCaseOrSeparators(c.arg, c.other) }
    \cup { [fn |-> "python_tag_to_requires_python", arg |-> t, other |-> <<>>,
            max_versions |-> 0] : t \in PythonTags }
    \cup { [fn |-> "normalize_wheel_filename",
            arg |-> d \o << FormatFilename(fs, ext) >>, other |-> fs, max_versions |-> 0] :
          d \in Parents,
          fs \in UNION { [1..n -> LocalFieldPool] : n \in 1..MaxSegments },
          ext \in { s_whl, s_zip } }
    \cup { [fn |-> "select_versions_to_download", arg |-> NewestFirst(n), other |-> <<>>,
            max_versions |-> m] : n \in 1..MaxListed, m \in 1..MaxWanted }

InitCalls ==
    /\ call \in Calls
    /\ returned = <<>>
    /\ PinIdle
    /\ ExtractIdle
    /\ IndexIdle
    /\ NormIdle

\* the argument of the next application: the function's own last result, if any
Current == IF returned = <<>> THEN [value |-> call.arg, other |-> call.other]
           ELSE returned[Len(returned)]

\* normalize_package_name(name), on both names of the pair
NormalizePackageName ==
    /\ call.fn = "normalize_package_name"
    /\ Len(returned) < 2
    /\ returned' = Append(returned, [value |-> normalize_package_name(Current.value),
                                     other |-> normalize_package_name(Current.other)])
    /\ UNCHANGED call
    /\ UNCHANGED <<pinVars, extractVars, indexVars, normVars>>

\* python_tag_to_requires_python(python_tag)
PythonTagToRequiresPython ==
    /\ call.fn = "python_tag_to_requires_python"
    /\ returned = <<>>
    /\ returned' = << [value |-> python_tag_to_requires_python(call.arg), other |-> <<>>] >>
    /\ UNCHANGED call
    /\ UNCHANGED <<pinVars, extractVars, indexVars, normVars>>

\* new_path = normalize_wheel_filename(wheel_path)
NormalizeWheelFilename ==
    /\ call.fn = "normalize_wheel_filename"
    /\ Len(returned) < 2
    /\ returned' = Append(returned, [value |-> normalize_wheel_filename(Current.value),
                                     other |-> call.other])
    /\ UNCHANGED call
    /\ UNCHANGED <<pinVars, extractVars, indexVars, normVars>>

\* selected_versions = select_versions_to_download(versions, max_versions)
SelectVersionsToDownload ==
    /\ call.fn = "select_versions_to_download"
    /\ returned = <<>>
    /\ returned' = << select_versions_to_download(call.arg, call.max_versions) >>
    /\ UNCHANGED call
    /\ UNCHANGED <<pinVars, extractVars, indexVars, normVars>>

NextCalls ==
    \/ NormalizePackageName
    \/ PythonTagToRequiresPython
    \/ NormalizeWheelFilename
    \/ SelectVersionsToDownload

SpecCalls == InitCalls /\ [][NextCalls]_vars

-----------------------------------------------------------------------------
(* Vocabulary of the properties of the rewriter *)

\* the distribution name of a wheel filename: its first hyphen-delimited field
DistributionOf(wheel_name) == split(wheel_name, "-")[1]

\* a name with '_' and '-' identified ('triton_kernels' is 'triton-kernels')
Hyphenated(name) == replace(name, <<"_">>, <<"-">>)

SameName(a, b) == Hyphenated(a) = Hyphenated(b)

WatchedLabels == { package_mapping[i].package_name : i \in 1..Len(package_mapping) }

\* the wheels of the directory the scan looks at
ScannedWheels == Range(glob_whl(install_dir.entries))

\* the scan of the current run has returned
Scanned == install_dir.exists /\ pc \notin {"scan"}

IsNameChar(c) == c \notin {" ", "\t", "\n", "\"", "'", ">", "<", "=", "!", "~", ",", ";"}

RECURSIVE SkipName(_, _)
SkipName(s, i) == IF i <= Len(s) /\ IsNameChar(s[i]) THEN SkipName(s, i + 1) ELSE i

RECURSIVE SkipSpaceOrQuote(_, _)
SkipSpaceOrQuote(s, i) ==
    IF i <= Len(s) /\ (IsSpace(s[i]) \/ IsQuote(s[i])) THEN SkipSpaceOrQuote(s, i + 1) ELSE i

\* the package a manifest line constrains: its leading name
LinePackage(line) ==
    LET a == SkipSpaceOrQuote(line, 1) IN Slice(line, a, SkipName(line, a) - 1)

\* the non-empty lines of a text
LinesOf(text) == { l \in Range(split(text, "\n")) : l # <<>> }

\* the text has a lower-bound constraint on the package: the name, standing
\* alone, followed by >= or by = ">=
HasLowerBound(text, package_name) ==
    \E i \in 1..Len(text) :
        /\ i = 1 \/ ~IsNameChar(text[i - 1])
        /\ LET a == MatchName(text, i, package_name)
               b == IF a = 0 THEN 0 ELSE SkipSpace(text, a)
           IN  /\ a # 0
               /\ \/ MatchLit(text, b, <<">", "=">>) # 0
                  \/ LET c == MatchLit(text, b, <<"=">>)
                     IN  c # 0 /\ MatchLit(text, SkipSpace(text, c), <<"\"", ">", "=">>) # 0

RunSucceeded == pc = "exit" /\ exit_status = 0

-----------------------------------------------------------------------------
(* Properties of the rewriter *)

\* C1: after the scan, every record under a watched label comes from a wheel
\* whose distribution name is exactly that package (a torchvision wheel is
\* never recorded under torch), and every watched package that has a
\* parseable wheel in the directory has its own record.
C1_RecordedUnderOwnNameOnly ==
    Scanned =>
        /\ \A i \in 1..Len(versions) :
              \E w \in ScannedWheels :
                  /\ SameName(DistributionOf(w), versions[i].name)
                  /\ extract_version_from_wheel(w).ok
                  /\ extract_version_from_wheel(w).version = versions[i].version
        /\ \A w \in ScannedWheels :
              (extract_version_from_wheel(w).ok
                 /\ \E l \in WatchedLabels : SameName(DistributionOf(w), l))
              => \E i \in 1..Len(versions) : SameName(DistributionOf(w), versions[i].name)

\* C2: the rewrite leaves every constraint line of a package that is not a
\* recorded package byte for byte as it was (torchvision or pytorch lines
\* when only torch is recorded).
C2_OtherPackagesUntouched ==
    pc = "open" =>
        \A l \in LinesOf(backup_file.data) :
            (\A i \in 1..Len(versions) : ~SameName(LinePackage(l), versions[i].name))
            => Contains(content, l \o <<"\n">>)

\* C3: at every point of a run on an existing manifest, the file at the
\* manifest path exists and holds the complete original text or the complete
\* rewritten text.
C3_ManifestAlwaysWhole ==
    pre_run.exists =>
        /\ pyproject_file.exists
        /\ \/ pyproject_file.data = pre_run.data
           \/ pyproject_file.data
                = Rewritten(pre_run.data, get_custom_wheel_versions(install_dir.entries)).content

\* C4: after a successful run the backup file exists and holds the manifest's
\* text from before the run, and the manifest is back at its path holding the
\* rewritten text.
C4_BackupHoldsPreRunText ==
    RunSucceeded =>
        /\ backup_file.exists
        /\ backup_file.data = pre_run.data
        /\ pyproject_file.exists
        /\ pyproject_file.data = Rewritten(pre_run.data, versions).content

C4_Witness ==
    /\ RunSucceeded
    /\ modifications # <<>>
    /\ backup_file.data # pyproject_file.data

\* C5: after a successful run no lower-bound constraint on a recorded package
\* remains anywhere in the manifest.
C5_NoLowerBoundRemains ==
    RunSucceeded =>
        \A i \in 1..Len(versions) : ~HasLowerBound(pyproject_file.data, versions[i].name)

\* C6: when the scan yields no pin record the run ends with a non-zero exit
\* status, and from the scan on no step creates, renames or writes the
\* manifest or the backup file.
C6_NoRecordsNoOutput ==
    [][ (pc' # "scan" /\ versions' = <<>>)
          => /\ pc' \in {"check", "exit"}
             /\ pc' = "exit" => exit_status' = 1
             /\ UNCHANGED <<pyproject_file, backup_file>> ]_vars

C6_Witness ==
    /\ pc = "exit"
    /\ exit_status = 1
    /\ install_dir.exists
    /\ install_dir.entries # <<>>
    /\ versions = <<>>
    /\ pyproject_file.exists
    /\ ~backup_file.exists

-----------------------------------------------------------------------------
(* Properties of the extractor *)

\* str.isdigit() on a field
IsNumeric(f) == f # <<>> /\ \A i \in 1..Len(f) : f[i] \in {"0","1","2","3","4","5","6","7","8","9"}

Returned == extracted.state = "returned"

\* C8: the extractor rejects a filename exactly when it does not end in .whl
\* or has fewer than 5 hyphen-delimited fields before the extension, and a
\* rejection carries no name, version or tag.
C8_RejectsExactlyMalformed ==
    Returned =>
        /\ ~extracted.result.ok <=> (~endswith(filename, s_whl) \/ Len(fields) < 5)
        /\ ~extracted.result.ok => extracted.result = Rejected

C8_Witness ==
    /\ Returned
    /\ ~extracted.result.ok
    /\ extension = s_whl
    /\ Len(fields) = 4

\* C9: every accepted filename has exactly 5 or 6 fields; the returned tag is
\* the third field of the 5-field form and the fourth of the 6-field form,
\* and the 6-field form is accepted only with a numeric build tag as third field.
C9_AcceptsOnlyFiveOrSixFields ==
    (Returned /\ extracted.result.ok) =>
        /\ Len(fields) \in {5, 6}
        /\ Len(fields) = 5 => extracted.result.python_tag = fields[3]
        /\ Len(fields) = 6 => extracted.result.python_tag = fields[4] /\ IsNumeric(fields[3])

\* the fields follow name-version[-build]-compat-abi-platform with extension .whl
Canonical ==
    /\ extension = s_whl
    /\ \/ Len(fields) = 5
       \/ Len(fields) = 6 /\ IsNumeric(fields[3])

\* C10: on a filename formatted from canonical fields, with or without a build
\* tag, the extractor returns exactly the name, version and compatibility tag
\* it was formatted from.
C10_ExtractInvertsFormat ==
    (Returned /\ Canonical) =>
        /\ extracted.result.ok
        /\ extracted.result.distribution = fields[1]
        /\ extracted.result.version = fields[2]
        /\ extracted.result.python_tag = fields[Len(fields) - 2]

C10_Witness ==
    /\ Returned
    /\ Canonical
    /\ Len(fields) = 6
    /\ extracted.result.ok
    /\ fields[3] # fields[4]

-----------------------------------------------------------------------------
(* Properties of the synthesizer *)

\* the artifact directory is missing or holds no .whl file at any depth
NoArtifacts ==
    \/ ~wheels_dir.exists
    \/ \A i \in 1..Len(wheels_dir.entries) : ~endswith(NameOf(wheels_dir.entries[i].path), s_whl)

\* C7: when the artifact directory does not exist or holds no .whl file, no
\* step of the run creates a directory or file under the output directory,
\* and the run ends with a non-zero exit status.
C7_NoArtifactsNoOutput ==
    [][ NoArtifacts
          => /\ UNCHANGED output_dir
             /\ ipc' \in {"collect", "exit"}
             /\ ipc' = "exit" => index_status' = 1 ]_vars

C7_Witness ==
    /\ ipc = "exit"
    /\ index_status = 1
    /\ wheels_dir.exists
    /\ wheels_dir.entries # <<>>
    /\ output_dir = EmptyOutput

-----------------------------------------------------------------------------
(* The two filename parsers on the same filename *)

Parsed == parsed.state = "returned"

\* C11: on every filename ending in .whl the rewriter's parser and the
\* synthesizer's extractor accept and reject alike, and on an accepted
\* filename they return the same version string.
C11_ParsersAgree ==
    (Returned /\ Parsed /\ endswith(filename, s_whl))
        => /\ parsed.result.ok = extracted.result.ok
           /\ parsed.result.ok => parsed.result.version = extracted.result.version

-----------------------------------------------------------------------------
(* normalize_package_name *)

\* C12: normalizing a normalized name changes nothing, and two names that
\* differ only in the case of a letter or in the separators of one run
\* (hence, step by step, names such as Foo_Bar and foo-bar) normalize to
\* the same string.
C12_NormalizeIdempotentAndInsensitive ==
    call.fn = "normalize_package_name" =>
        /\ Len(returned) >= 1 =>
              (SameButCaseOrSeparators(call.arg, call.other)
                  => returned[1].value = returned[1].other)
        /\ Len(returned) >= 2 => returned[2] = returned[1]

C12_Witness ==
    /\ call.fn = "normalize_package_name"
    /\ Len(returned) = 2
    /\ Widened(call.arg, call.other)
    /\ \E i \in 1..Len(call.arg) : IsUpper(call.arg[i])
    /\ returned[1].value # call.arg

-----------------------------------------------------------------------------
(* python_tag_to_requires_python *)

Digits == {"0","1","2","3","4","5","6","7","8","9"}

AllDigits(s) == \A i \in 1..Len(s) : s[i] \in Digits

\* cp followed by at least two digits
IsCpTag(t) == startswith(t, <<"c","p">>) /\ Len(t) >= 4 /\ AllDigits(Slice(t, 3, Len(t)))

\* py followed by at least one digit
IsPyTag(t) == startswith(t, <<"p","y">>) /\ Len(t) >= 3 /\ AllDigits(Slice(t, 3, Len(t)))

\* the constraint >=M.N, with > escaped for HTML
AtLeast(major, minor) == s_ge_escaped \o major \o <<".">> \o minor

TagConverted == call.fn = "python_tag_to_requires_python" /\ returned # <<>>

\* C16: a constraint is returned only for cp<digits> (cp312 gives 3.12) and
\* py<digits> (py39 gives 3.9, py3 gives 3.0); every other tag gives no
\* constraint.
C16_ConstraintOnlyForCpOrPyDigits ==
    TagConverted =>
        LET t == call.arg
            rest == Slice(call.arg, 3, Len(call.arg))
        IN  returned[1].value =
                IF IsCpTag(t) THEN AtLeast(<<rest[1]>>, Tail(rest))
                ELSE IF IsPyTag(t) /\ Len(rest) = 1 THEN AtLeast(rest, <<"0">>)
                ELSE IF IsPyTag(t) THEN AtLeast(<<rest[1]>>, Tail(rest))
                ELSE <<>>

\* C17: the compound tag py2.py3 gives the constraint >=2.0.
C17_CompoundTagGivesTwoZero ==
    (TagConverted /\ call.arg = <<"p","y","2",".","p","y","3">>)
        => returned[1].value = AtLeast(<<"2">>, <<"0">>)

-----------------------------------------------------------------------------
(* normalize_wheel_filename *)

\* the part of a version before its first '+'
RECURSIVE BeforePlus(_)
BeforePlus(v) ==
    IF v = <<>> \/ v[1] = "+" THEN <<>> ELSE <<v[1]>> \o BeforePlus(Tail(v))

\* the call is on a wheel filename: .whl, and the five or six fields of the format
OnWheelFilename ==
    /\ call.fn = "normalize_wheel_filename"
    /\ endswith(NameOf(call.arg), s_whl)
    /\ Len(call.other) \in {5, 6}

\* C20: on a wheel filename whose version field has a '+', the result is
\* the filename with the version field cut at its first '+' and every other
\* field as it was; without a '+' in the version field the result is the
\* argument; and applying the function to its own result changes nothing.
C20_StripsLocalVersionOnce ==
    call.fn = "normalize_wheel_filename" =>
        /\ (OnWheelFilename /\ Len(returned) >= 1) =>
              returned[1].value =
                  IF "+" \in Range(call.other[2])
                  THEN Parent(call.arg)
                         \o << FormatFilename([call.other EXCEPT ![2] = BeforePlus(@)], s_whl) >>
                  ELSE call.arg
        /\ Len(returned) >= 2 => returned[2].value = returned[1].value

C20_Witness ==
    /\ OnWheelFilename
    /\ Len(returned) = 2
    /\ call.other[2] = f_local_twice
    /\ "+" \in Range(call.other[1])
    /\ returned[1].value # call.arg

-----------------------------------------------------------------------------
(* Vocabulary of the properties of the synthesizer *)

\* a run of the synthesizer has completed
IndexDone == ipc = "exit" /\ index_status = 0

\* the artifacts the current run discovered
Discovered == Range(all_wheels)

Parses(f) == extract_wheel_metadata(NameOf(f.path)).ok

\* the normalized form of the name of a parsed artifact
PackageOf(f) == normalize_package_name(extract_wheel_metadata(NameOf(f.path)).distribution)

ParsedNames == { PackageOf(f) : f \in { g \in Discovered : Parses(g) } }

LinkTexts(page) == { page.links[i].text : i \in 1..Len(page.links) }

\* the names of the per-package documents that link the artifact
DocumentsLinking(f) ==
    { pg.name : pg \in { q \in output_dir.package_pages : NameOf(f.path) \in LinkTexts(q.page) } }

-----------------------------------------------------------------------------
(* The per-package documents *)

\* C13: after a run, a parsed artifact is linked from exactly one
\* per-package document, the one of its normalized name; artifacts whose
\* names normalize alike are in the same document; an artifact that does
\* not parse is linked from none.
C13_LinkedFromItsPackageOnly ==
    IndexDone =>
        /\ \A f \in Discovered :
              DocumentsLinking(f) = IF Parses(f) THEN { PackageOf(f) } ELSE {}
        /\ \A f, g \in Discovered :
              (Parses(f) /\ Parses(g) /\ PackageOf(f) = PackageOf(g))
                  => DocumentsLinking(f) = DocumentsLinking(g)

\* C14: in every per-package document the links are in reverse lexical
\* order of their filenames, wherever under the artifact directory the
\* artifacts were found.
C14_LinksInReverseFilenameOrder ==
    \A pg \in output_dir.package_pages :
        \A i, j \in 1..Len(pg.page.links) :
            i < j => ~StrLess(pg.page.links[i].text, pg.page.links[j].text)

-----------------------------------------------------------------------------
(* The top-level document *)

MainIndexWritten == ipc \in {"landing", "summary"} \/ IndexDone

\* C15: simple/index.html lists, ascending and each once, exactly the
\* normalized names that have a parsed artifact, and only those names have
\* a package directory.
C15_MainIndexListsParsedNames ==
    MainIndexWritten =>
        LET entries == output_dir.main_index.data.links
        IN  /\ \A i \in 1..(Len(entries) - 1) : StrLess(entries[i].text, entries[i + 1].text)
            /\ { entries[i].text : i \in 1..Len(entries) } = ParsedNames
            /\ \A i \in 1..Len(entries) : entries[i].href = entries[i].text \o <<"/">>
            /\ output_dir.package_dirs = ParsedNames \ { <<>> }

C15_Witness ==
    /\ IndexDone
    /\ Len(output_dir.main_index.data.links) = 2
    /\ packages[1].name = output_dir.main_index.data.links[2].text
    /\ \E f \in Discovered : ~Parses(f)

-----------------------------------------------------------------------------
(* Repeated runs *)

SameBuildDate ==
    /\ previous_output.landing_page.exists
    /\ output_dir.landing_page.data.build_date = previous_output.landing_page.data.build_date

\* C18: a second run over the unchanged artifact directory, with the same
\* options and build timestamp, leaves the same files with the same
\* content, in whatever order the artifacts are enumerated.
C18_SecondRunSameOutput ==
    (IndexDone /\ index_runs >= 2 /\ SameBuildDate) => output_dir = previous_output

C18_Witness ==
    /\ IndexDone
    /\ index_runs = 2
    /\ SameBuildDate
    /\ Len(all_wheels) >= 2
    /\ PathLess(all_wheels[1].path, all_wheels[2].path)
    /\ \E pg \in output_dir.package_pages : Len(pg.page.links) = 2

-----------------------------------------------------------------------------
(* Failures on one artifact *)

HasAttribute(link, a) == \E i \in 1..Len(link.attributes) : link.attributes[i].attr = a

AttributeValue(link, a) ==
    link.attributes[CHOOSE i \in 1..Len(link.attributes) : link.attributes[i].attr = a].value

\* the link of the artifact in the document of its package has the right
\* href and text, and lacks an annotation exactly when that annotation
\* was not asked for or could not be computed
LinkedWithWhatSucceeded(f) ==
    \E pg \in output_dir.package_pages :
        /\ pg.name = PackageOf(f)
        /\ \E i \in 1..Len(pg.page.links) :
              LET link == pg.page.links[i]
                  tag == extract_wheel_metadata(NameOf(f.path)).python_tag
              IN  /\ link.text = NameOf(f.path)
                  /\ AttributeValue(link, "href") = s3_url \o s_packages \o NameOf(f.path)
                  /\ HasAttribute(link, "data-dist-info-metadata") <=> (add_hashes /\ f.readable)
                  /\ HasAttribute(link, "data-dist-info-metadata") =>
                        AttributeValue(link, "data-dist-info-metadata")
                            = <<"s","h","a","2","5","6","=">> \o f.digest
                  /\ HasAttribute(link, "data-requires-python")
                        <=> (add_metadata /\ python_tag_to_requires_python(tag) # <<>>)

-----------------------------------------------------------------------------
(* Runs of the rewriter that find nothing to pin *)

\* the packages the run reported as pinned
Reported == { modifications[i].name : i \in 1..Len(modifications) }

\* C21: whenever pin records exist and the manifest is there the run exits
\* with status zero; a recorded package that has no lower-bound constraint
\* in the manifest is not reported as pinned; and when no recorded package
\* has one, nothing is reported and the manifest holds the text it held
\* before the run.
C21_NothingMatchedNothingChanged ==
    /\ (pc = "exit" /\ versions # <<>> /\ pre_run.exists) => exit_status = 0
    /\ RunSucceeded =>
          /\ \A i \in 1..Len(versions) :
                ~HasLowerBound(pre_run.data, versions[i].name)
                    => versions[i].name \notin Reported
          /\ (\A i \in 1..Len(versions) : ~HasLowerBound(pre_run.data, versions[i].name))
                => /\ modifications = <<>>
                   /\ pyproject_file = pre_run

-----------------------------------------------------------------------------
(* The scan and the order of the directory entries *)

\* two dicts with the same items, whatever their insertion order
SameRecords(d, e) == Range(d) = Range(e)

\* C22: the pin records, and so the rewritten manifest, depend on the
\* contents of the install directory alone: a scan that enumerated the same
\* entries in any other order would have produced the same records.
C22_ScanIndependentOfOrder ==
    Scanned =>
        \A a \in Reorderings(install_dir.entries) :
            /\ SameRecords(get_custom_wheel_versions(a), versions)
            /\ pre_run.exists =>
                  Rewritten(pre_run.data, get_custom_wheel_versions(a)).content
                      = Rewritten(pre_run.data, versions).content

-----------------------------------------------------------------------------
(* Successive runs of the rewriter *)

\* C23: after one or more successful runs on the same manifest path the
\* backup file holds the manifest text from before the first run.
C23_BackupKeepsOriginal ==
    RunSucceeded => backup_file = original

\* C24: pinning its own output again, with the same pin records, gives
\* that output back and reports no modification.
C24_PinningIsIdempotent ==
    (RunSucceeded /\ runs >= 2) =>
        /\ pyproject_file = pre_run
        /\ modifications = <<>>

-----------------------------------------------------------------------------
(* The output tree across runs and during a run *)

\* the names simple/index.html has an anchor for
Listed == { output_dir.main_index.data.links[i].text :
                i \in 1..Len(output_dir.main_index.data.links) }

\* C25: after any sequence of runs into the same output directory, every
\* per-package document under simple/ is of a package that the current
\* simple/index.html lists.
C25_NoUnlistedPackagePage ==
    IndexDone => \A pg \in output_dir.package_pages : pg.name \in Listed

\* C26: in a run into a fresh output directory, whenever simple/index.html
\* exists every package it lists has its per-package document, and
\* whenever the landing page exists simple/index.html exists.
C26_PagesBeforeMainIndex ==
    index_runs = 1 =>
        /\ output_dir.main_index.exists =>
              \A n \in Listed : \E pg \in output_dir.package_pages : pg.name = n
        /\ output_dir.landing_page.exists => output_dir.main_index.exists

-----------------------------------------------------------------------------
(* Properties of normalize_wheels_in_directory *)

TargetOf(wheel_name) == NameOf(normalize_wheel_filename(<< wheel_name >>))

\* every file the directory held at the call is still there, with its bytes
NoFileLost(files) ==
    /\ Len(files) = Len(directory_before)
    /\ \A i \in 1..Len(files) : files[i].digest = directory_before[i].digest

\* the loop is about to visit a wheel whose normalized name is taken
TargetTaken ==
    /\ npc = "loop"
    /\ remaining # <<>>
    /\ ~dry_run
    /\ TargetOf(remaining[1]) # remaining[1]
    /\ Exists(directory, TargetOf(remaining[1]))

FileNames(files) == { files[i].name : i \in 1..Len(files) }

Counts(st) == [normalized |-> st.normalized, unchanged |-> st.unchanged, errors |-> st.errors]

AllMovable(files) == \A i \in 1..Len(files) : files[i].movable

\* C28: a dry run renames no file, and on a directory whose files the operating
\* system lets be renamed it returns the normalized, unchanged and errors
\* counts that a real run on the same directory returns.
C28_DryRunPredictsRealRun ==
    (npc = "returned" /\ dry_run) =>
        /\ FileNames(directory) = FileNames(directory_before)
        /\ AllMovable(directory_before) =>
              Counts(stats) = Counts(normalize_wheels_in_directory(directory_before, FALSE).stats)

\* C29: at every point of the loop each wheel visited so far has been counted
\* in exactly one of normalized, unchanged and errors, and total is the number
\* of wheels found, so that the returned statistics satisfy
\* total = normalized + unchanged + errors.
C29_CountsAddUp ==
    /\ npc \in {"loop", "returned"} =>
          /\ stats.total = Len(wheels_found)
          /\ stats.normalized + stats.unchanged + stats.errors
                = Len(wheels_found) - Len(remaining)
    /\ npc = "returned" =>
          stats.total = stats.normalized + stats.unchanged + stats.errors

\* a real run has returned counts in two of the three classes
C29_Witness ==
    /\ npc = "returned"
    /\ stats.total >= 2
    /\ stats.errors >= 1
    /\ stats.normalized + stats.unchanged >= 1

-----------------------------------------------------------------------------
(* Properties of select_versions_to_download *)

\* some strictly increasing choice of positions of b spells a
IsSubList(a, b) ==
    \E pos \in [1..Len(a) -> 1..Len(b)] :
        /\ \A i \in 1..Len(a) : a[i] = b[pos[i]]
        /\ \A i \in 1..Len(a) : \A j \in 1..Len(a) : i < j => pos[i] < pos[j]

Selected == call.fn = "select_versions_to_download" /\ returned # <<>>

\* C30: for a non-empty newest-first list and max_versions >= 1 the function
\* returns, without raising, a duplicate-free sub-list of the input in input
\* order, of at most max_versions entries, starting with the newest version,
\* containing the oldest version when max_versions >= 2, and equal to the
\* input when the input has at most max_versions entries.
C30_SelectsWithinLimit ==
    Selected =>
        LET all_versions == call.arg
            max_versions == call.max_versions
            selected == returned[1].value
        IN  /\ returned[1].raised = ""
            /\ Distinct(selected)
            /\ IsSubList(selected, all_versions)
            /\ Len(selected) <= max_versions
            /\ selected # <<>> /\ selected[1] = all_versions[1]
            /\ max_versions >= 2 => all_versions[Len(all_versions)] \in Range(selected)
            /\ Len(all_versions) <= max_versions => selected = all_versions


=============================================================================
